---------------------------- MODULE Spec2Model ----------------------------
(***************************************************************************)
(* State-machine model of the webtoon annotation session (src/App.tsx),    *)
(* the interactive region editor (src/components/ImageCanvas.tsx) and the  *)
(* translation service wrapper (src/types.ts, translateOcrResults).        *)
(*                                                                         *)
(* Percentage coordinates are counted in hundredths of a percentage point, *)
(* so the 0.05 threshold of handleMouseUp is the integer 5.  Texts are     *)
(* sequences of one-character strings.  A React state update made by a     *)
(* handler is visible to the next handler; the closure of an async pass    *)
(* keeps the values it captured when the pass was dispatched.              *)
(***************************************************************************)
EXTENDS Integers, Sequences, FiniteSets, TLC

\* ------------------------------------------------------------------ inputs
\* Largest number of uploaded panels kept in the ingest list.
MaxImages == 1
\* Largest number of updateRegion text edits in one run.
MaxEdits == 1
\* Largest number of OCR and translation passes dispatched in one run.
MaxPasses == 1

\* handleMouseUp keeps a rectangle only if both sides exceed 0.05 points.
Threshold == 5

\* Pointer positions <<x, y>>, as percentages of the displayed image
\* (hundredths of a point).
Points == {<<0, 0>>, <<5, 20>>, <<20, 0>>, <<20, 20>>}
\* Outcomes of Math.random().toString(36).substr(2, 9).
IdSpace == {"p", "q"}
\* Natural sizes <<width, height>> of the uploaded panels.
ImageSizes == {<<2, 3>>}
\* Raw texts the OCR engine returns for a crop, before trim().
RawTexts == {<<"a", "\n">>, <<"\n">>}
\* Values typed into a text area of the side panel.
EditTexts == {<<"e">>}
\* Texts the translation service returns.
TransTexts == {<<"t">>}
\* Longest translation result array.
MaxTrans == 2

\* Longest image sequence handed to the compositor on its own.
MaxMerge == 3
\* Natural sizes <<width, height>> of the panels of such a sequence.
MergeSizes == {<<2, 3>>, <<4, 1>>, <<1, 2>>}

\* Longest text of a region handed to the export renderer on its own.
MaxText == 4
\* The characters of such a text.
ExportChars == {"a", "b", " "}

NoId == "null"
NoPos == [x |-> -1, y |-> -1]
NoRect == [x |-> -1, y |-> -1, w |-> -1, h |-> -1]
NoUrl == [w |-> 0, h |-> 0, draws |-> <<>>]
NullImage == [null |-> TRUE, url |-> NoUrl, regions |-> <<>>]

\* ----------------------------------------------------------------- helpers
Min(a, b) == IF a <= b THEN a ELSE b
Max(a, b) == IF a >= b THEN a ELSE b
Abs(a) == IF a >= 0 THEN a ELSE -a

Front(s) == SubSeq(s, 1, Len(s) - 1)
Last(s) == s[Len(s)]

RECURSIVE SeqSum(_)
SeqSum(s) == IF s = <<>> THEN 0 ELSE Head(s) + SeqSum(Tail(s))

RECURSIVE SeqMax(_)
SeqMax(s) == IF Len(s) = 1 THEN s[1] ELSE Max(Head(s), SeqMax(Tail(s)))

Whitespace == {" ", "\n"}

RECURSIVE TrimStart(_)
TrimStart(t) ==
    IF t # <<>> /\ Head(t) \in Whitespace THEN TrimStart(Tail(t)) ELSE t

RECURSIVE TrimEnd(_)
TrimEnd(t) ==
    IF t # <<>> /\ Last(t) \in Whitespace THEN TrimEnd(Front(t)) ELSE t

\* String.prototype.trim
Trim(t) == TrimEnd(TrimStart(t))

\* Array.prototype.sort with (a, b) => dir * (a.order - b.order); stable.
RECURSIVE InsertSorted(_, _, _)
InsertSorted(t, r, dir) ==
    IF t = <<>> \/ dir * (Last(t).order - r.order) <= 0
    THEN Append(t, r)
    ELSE Append(InsertSorted(Front(t), r, dir), Last(t))

RECURSIVE SortRegions(_, _)
SortRegions(s, dir) ==
    IF s = <<>> THEN <<>>
    ELSE InsertSorted(SortRegions(Front(s), dir), Last(s), dir)

\* Array.prototype.find over the positions S whose elements pass the test:
\* the first such position, 0 if there is none.
FirstIndex(S) ==
    IF S = {} THEN 0 ELSE CHOOSE i \in S : \A j \in S : i <= j

\* ------------------------------------------------------------------- state
VARIABLES
    images,            \* App: the ingest list, [id, width, height] per panel
    mergedImage,       \* App: NullImage or [url, regions]
    isProcessing,      \* App: the global busy flag
    processingStatus,  \* App: the progress text
    selectedRegionId,  \* App: NoId or the id of the selected region
    mode,              \* App: "UPLOAD" or "MERGED_EDITOR"
    isDrawing,         \* ImageCanvas
    startPos,          \* ImageCanvas: NoPos or the anchor
    currentRect,       \* ImageCanvas: NoRect or the pending rectangle
    mergePc,           \* mergeImagesOnly: "idle" or "decode"
    mergeImages,       \* mergeImagesOnly: the images it captured
    mergeCanvas,       \* mergeImagesOnly: the canvas and the draws so far
    ocrPc,             \* runOcrOnSelectedRegions: "idle", "init", "load", "rec", "term"
    ocrMerged,         \* runOcrOnSelectedRegions: the mergedImage it captured
    updatedRegions,    \* runOcrOnSelectedRegions: its sorted working copy
    ocrI,              \* runOcrOnSelectedRegions: the loop index i (0-based)
    transPc,           \* runAiTranslation: "idle" or "call"
    transMerged,       \* runAiTranslation: the mergedImage it captured
    alerts,            \* history: alert() calls since the last pass was dispatched
    edits,             \* history: updateRegion calls so far
    passes,            \* history: OCR and translation passes dispatched so far
    pointer,           \* history: last position handed to the drawing handlers
    lastOp,            \* history: what the last step did
    exportPc,          \* downloadFinal: "idle" or "load"
    exportMerged,      \* downloadFinal: the mergedImage it captured
    exportCtx,         \* downloadFinal: whether getContext('2d') gave a context
    download           \* the canvas handed to the download link, or NoUrl

sessionVars == <<images, mergedImage, isProcessing, processingStatus,
                 selectedRegionId, mode>>
canvasVars == <<isDrawing, startPos, currentRect, pointer>>
mergeVars == <<mergePc, mergeImages, mergeCanvas>>
ocrVars == <<ocrPc, ocrMerged, updatedRegions, ocrI>>
transVars == <<transPc, transMerged>>
passVars == <<mergeVars, ocrVars, transVars>>
exportVars == <<exportPc, exportMerged, exportCtx, download>>
vars == <<images, mergedImage, isProcessing, processingStatus,
          selectedRegionId, mode, isDrawing, startPos, currentRect,
          mergePc, mergeImages, mergeCanvas,
          ocrPc, ocrMerged, updatedRegions, ocrI,
          transPc, transMerged, alerts, edits, passes, pointer, lastOp,
          exportPc, exportMerged, exportCtx, download>>

Init ==
    /\ images = <<>>
    /\ mergedImage = NullImage
    /\ isProcessing = FALSE
    /\ processingStatus = ""
    /\ selectedRegionId = NoId
    /\ mode = "UPLOAD"
    /\ isDrawing = FALSE
    /\ startPos = NoPos
    /\ currentRect = NoRect
    /\ mergePc = "idle"
    /\ mergeImages = <<>>
    /\ mergeCanvas = NoUrl
    /\ ocrPc = "idle"
    /\ ocrMerged = NullImage
    /\ updatedRegions = <<>>
    /\ ocrI = 0
    /\ transPc = "idle"
    /\ transMerged = NullImage
    /\ alerts = 0
    /\ edits = 0
    /\ passes = 0
    /\ pointer = NoPos
    /\ lastOp = "init"
    /\ exportPc = "idle"
    /\ exportMerged = NullImage
    /\ exportCtx = FALSE
    /\ download = NoUrl

\* ------------------------------------------------------- derived App state
Regions == mergedImage.regions

RegionIds(rs) == {rs[i].id : i \in DOMAIN rs}

\* The side panel dereferences find(r => r.id === selectedRegionId)! while
\* rendering the editor: with no such region the render throws and React
\* unmounts the application.
RenderThrows ==
    /\ mode = "MERGED_EDITOR"
    /\ selectedRegionId # NoId
    /\ selectedRegionId \notin RegionIds(Regions)

UploadScreen == mode = "UPLOAD" /\ ~RenderThrows
EditorScreen == mode = "MERGED_EDITOR" /\ ~RenderThrows

\* A region object that the working copy of a running OCR pass also holds
\* carries obj = its index in the array the pass captured; every other
\* object carries 0.  Writing a field of updatedRegions[i] writes the object
\* wherever it is held.
Untagged(rs) == [i \in DOMAIN rs |-> [rs[i] EXCEPT !.obj = 0]]
Tagged(rs) == [i \in DOMAIN rs |-> [rs[i] EXCEPT !.obj = i]]

WriteOriginalText(rs, tag, text) ==
    [i \in DOMAIN rs |->
        IF rs[i].obj = tag THEN [rs[i] EXCEPT !.originalText = text] ELSE rs[i]]

\* ------------------------------------------------------------ ingest list
\* handleFileUpload: the decoded panels are appended to the list.
HandleFileUpload ==
    /\ UploadScreen
    /\ \E n \in 1..MaxImages :
         \E batch \in [1..n -> IdSpace \X ImageSizes] :
            /\ Len(images) + n <= MaxImages
            /\ images' = images \o
                 [k \in 1..n |-> [id |-> batch[k][1],
                                  width |-> batch[k][2][1],
                                  height |-> batch[k][2][2]]]
    /\ lastOp' = "upload"
    /\ UNCHANGED <<mergedImage, isProcessing, processingStatus,
                   selectedRegionId, mode, canvasVars, passVars,
                   alerts, edits, passes>>
    /\ UNCHANGED exportVars

\* moveImage(index, direction); index is 1-based here.
MovedImages(imgs, index, direction) ==
    LET target == IF direction = "up" THEN index - 1 ELSE index + 1 IN
    IF target < 1 \/ target > Len(imgs) THEN imgs
    ELSE [imgs EXCEPT ![index] = imgs[target], ![target] = imgs[index]]

MoveImage ==
    /\ UploadScreen
    /\ \E index \in 1..Len(images), direction \in {"up", "down"} :
         images' = MovedImages(images, index, direction)
    /\ lastOp' = "moveImage"
    /\ UNCHANGED <<mergedImage, isProcessing, processingStatus,
                   selectedRegionId, mode, canvasVars, passVars,
                   alerts, edits, passes>>
    /\ UNCHANGED exportVars

\* The SIL button of a panel: setImages(prev => prev.filter(i => i.id !== img.id)).
RemoveImage ==
    /\ UploadScreen
    /\ \E index \in 1..Len(images) :
         LET Keep(im) == im.id # images[index].id IN
         images' = SelectSeq(images, Keep)
    /\ lastOp' = "removeImage"
    /\ UNCHANGED <<mergedImage, isProcessing, processingStatus,
                   selectedRegionId, mode, canvasVars, passVars,
                   alerts, edits, passes>>
    /\ UNCHANGED exportVars

\* ------------------------------------------------------------- compositor
\* Mutant of MergeDisabled: the merge button ignores the busy flag.
MergeNeverDisabled == FALSE

\* disabled={isProcessing} on the merge button.
MergeDisabled == isProcessing

CanvasWidth(imgs) == SeqMax([k \in DOMAIN imgs |-> imgs[k].width])
CanvasHeight(imgs) == SeqSum([k \in DOMAIN imgs |-> imgs[k].height])

\* Mutant of DrawNext: currentY is never advanced.
DrawNextAtTop(canvas, imgs) ==
    LET k == Len(canvas.draws) + 1 IN
    [canvas EXCEPT !.draws = Append(@, [x |-> 0, y |-> 0,
                                        w |-> imgs[k].width,
                                        h |-> imgs[k].height])]

\* ctx.drawImage(img, 0, currentY, width, height) for the next image.
DrawNext(canvas, imgs) ==
    LET k == Len(canvas.draws) + 1
        currentY == SeqSum([j \in 1..(k - 1) |-> imgs[j].height]) IN
    [canvas EXCEPT !.draws = Append(@, [x |-> 0, y |-> currentY,
                                        w |-> imgs[k].width,
                                        h |-> imgs[k].height])]

\* mergeImagesOnly up to its first await.  getContext('2d') may yield null:
\* the function then returns with the busy flag still set.
mergeImagesOnly ==
    /\ IF Len(images) = 0
       THEN /\ lastOp' = "mergeGuard"
            /\ UNCHANGED <<isProcessing, processingStatus, mergeVars>>
       ELSE /\ isProcessing' = TRUE
            /\ processingStatus' = "Paneller birlestiriliyor..."
            /\ \E ctx \in BOOLEAN :
                 IF ~ctx
                 THEN /\ lastOp' = "mergeNoContext"
                      /\ UNCHANGED mergeVars
                 ELSE /\ lastOp' = "mergeStart"
                      /\ mergePc' = "decode"
                      /\ mergeImages' = images
                      /\ mergeCanvas' = [w |-> CanvasWidth(images),
                                         h |-> CanvasHeight(images),
                                         draws |-> <<>>]
    /\ UNCHANGED <<images, mergedImage, selectedRegionId, mode, canvasVars,
                   ocrVars, transVars, alerts, edits, passes>>
    /\ UNCHANGED exportVars

\* The merge button, which is shown with the list of a non-empty sequence.
MergeStart ==
    /\ UploadScreen
    /\ Len(images) > 0
    /\ ~MergeDisabled
    /\ mergeImagesOnly

\* mergeImagesOnly called with no image in the sequence.
MergeOnNothing ==
    /\ Len(images) = 0
    /\ mergeImagesOnly

\* One image finished decoding and is drawn; after the last one the working
\* image is superseded and the editor is shown.
MergeDecoded ==
    /\ mergePc = "decode"
    /\ LET canvas == DrawNext(mergeCanvas, mergeImages) IN
       IF Len(canvas.draws) < Len(mergeImages)
       THEN /\ mergeCanvas' = canvas
            /\ lastOp' = "mergeDraw"
            /\ UNCHANGED <<mergePc, mergeImages, mergedImage, mode,
                           isProcessing, processingStatus>>
       ELSE /\ mergedImage' = [null |-> FALSE, url |-> canvas, regions |-> <<>>]
            /\ mode' = "MERGED_EDITOR"
            /\ isProcessing' = FALSE
            /\ processingStatus' = ""
            /\ mergePc' = "idle"
            /\ mergeImages' = <<>>
            /\ mergeCanvas' = NoUrl
            /\ lastOp' = "mergeDone"
    /\ UNCHANGED <<images, selectedRegionId, canvasVars, ocrVars, transVars,
                   alerts, edits, passes>>
    /\ UNCHANGED exportVars

\* "Yeni Bolume Basla": setMode(UPLOAD).  ImageCanvas is unmounted, so its
\* state starts afresh when the editor is shown again.
ResetToUpload ==
    /\ EditorScreen
    /\ mode' = "UPLOAD"
    /\ isDrawing' = FALSE
    /\ startPos' = NoPos
    /\ currentRect' = NoRect
    /\ pointer' = NoPos
    /\ lastOp' = "reset"
    /\ UNCHANGED <<images, mergedImage, isProcessing, processingStatus,
                   selectedRegionId, passVars, alerts, edits, passes>>
    /\ UNCHANGED exportVars

\* ------------------------------------------------------ region sequencing
\* Mutant of NewRegion: the order is the count, without the + 1.
NewRegionOrderIsCount(rs, data, id) ==
    [id |-> id, x |-> data.x, y |-> data.y,
     width |-> data.width, height |-> data.height,
     originalText |-> data.originalText,
     translatedText |-> data.translatedText,
     order |-> Len(rs), obj |-> 0]

\* The region addRegion builds for the drawn rectangle.
NewRegion(rs, data, id) ==
    [id |-> id, x |-> data.x, y |-> data.y,
     width |-> data.width, height |-> data.height,
     originalText |-> data.originalText,
     translatedText |-> data.translatedText,
     order |-> Len(rs) + 1, obj |-> 0]

\* addRegion(data), with id the outcome of Math.random().
addRegion(data, id) ==
    IF mergedImage.null
    THEN UNCHANGED <<mergedImage, selectedRegionId>>
    ELSE /\ mergedImage' =
              [mergedImage EXCEPT !.regions = Append(@, NewRegion(@, data, id))]
         /\ selectedRegionId' = id

\* Mutant of RemovedRegions: the survivors are numbered from 0.
RemovedRegionsFromZero(rs, id) ==
    LET Keep(r) == r.id # id
        kept == SelectSeq(rs, Keep) IN
    [i \in DOMAIN kept |-> [kept[i] EXCEPT !.order = i - 1, !.obj = 0]]

\* Mutant of RemovedRegions: the survivors keep their old numbers.
RemovedRegionsKeepOrder(rs, id) ==
    LET Keep(r) == r.id # id
        kept == SelectSeq(rs, Keep) IN
    [i \in DOMAIN kept |-> [kept[i] EXCEPT !.obj = 0]]

\* filter(r => r.id !== id).map((r, i) => ({...r, order: i + 1}))
RemovedRegions(rs, id) ==
    LET Keep(r) == r.id # id
        kept == SelectSeq(rs, Keep) IN
    [i \in DOMAIN kept |-> [kept[i] EXCEPT !.order = i, !.obj = 0]]

\* Mutant of removeRegion: the selection is left as it was.
removeRegionKeepsSelection(id) ==
    IF mergedImage.null
    THEN UNCHANGED <<mergedImage, selectedRegionId>>
    ELSE /\ mergedImage' = [mergedImage EXCEPT !.regions = RemovedRegions(@, id)]
         /\ UNCHANGED selectedRegionId

removeRegion(id) ==
    IF mergedImage.null
    THEN UNCHANGED <<mergedImage, selectedRegionId>>
    ELSE /\ mergedImage' = [mergedImage EXCEPT !.regions = RemovedRegions(@, id)]
         /\ selectedRegionId' = NoId

\* map(r => r.id === id ? {...r, ...updates} : r), for an update of one
\* text field.
UpdatedRegions(rs, id, field, text) ==
    [i \in DOMAIN rs |->
        IF rs[i].id = id
        THEN IF field = "originalText"
             THEN [rs[i] EXCEPT !.originalText = text, !.obj = 0]
             ELSE [rs[i] EXCEPT !.translatedText = text, !.obj = 0]
        ELSE rs[i]]

updateRegion(id, field, text) ==
    IF mergedImage.null
    THEN UNCHANGED mergedImage
    ELSE mergedImage' =
             [mergedImage EXCEPT !.regions = UpdatedRegions(@, id, field, text)]

\* ---------------------------------------------------------- region editor
Contains(r, x, y) ==
    /\ x >= r.x /\ x <= r.x + r.width
    /\ y >= r.y /\ y <= r.y + r.height

\* The positions of the regions that contain the point.
Containing(rs, x, y) == {i \in DOMAIN rs : Contains(rs[i], x, y)}

\* Mutant of ClickedRegion: the regions are searched in ascending order.
ClickedRegionLowest(rs, x, y) ==
    LET sorted == SortRegions(rs, 1)
        i == FirstIndex(Containing(sorted, x, y)) IN
    IF i = 0 THEN NoId ELSE sorted[i].id

\* [...regions].sort((a, b) => b.order - a.order).find(contains): the id of
\* the region found, NoId if there is none.
ClickedRegion(rs, x, y) ==
    LET sorted == SortRegions(rs, -1)
        i == FirstIndex(Containing(sorted, x, y)) IN
    IF i = 0 THEN NoId ELSE sorted[i].id

\* handleMouseMove: the bounding box of the anchor and the pointer.
PendingRect(start, x, y) ==
    [x |-> Min(x, start.x), y |-> Min(y, start.y),
     w |-> Abs(x - start.x), h |-> Abs(y - start.y)]

\* Mutant of Commits: a side of exactly 0.05 points is accepted.
CommitsAtThreshold(drawing, rect) ==
    drawing /\ rect # NoRect /\ rect.w >= Threshold /\ rect.h >= Threshold

\* handleMouseUp: the test that decides between commit and discard.
Commits(drawing, rect) ==
    drawing /\ rect # NoRect /\ rect.w > Threshold /\ rect.h > Threshold

RegionData(rect) ==
    [x |-> rect.x, y |-> rect.y, width |-> rect.w, height |-> rect.h,
     originalText |-> <<>>, translatedText |-> <<>>]

\* Mutant of ZeroRect: the pending rectangle starts one hundredth wide.
ZeroRectUnitWide(x, y) == [x |-> x, y |-> y, w |-> 1, h |-> 0]

\* setCurrentRect({ x, y, w: 0, h: 0 })
ZeroRect(x, y) == [x |-> x, y |-> y, w |-> 0, h |-> 0]

\* handleMouseDown with the pointer at (x, y).
MouseDownAt(x, y) ==
    /\ EditorScreen
    /\ LET clicked == ClickedRegion(Regions, x, y) IN
       IF clicked # NoId
       THEN /\ selectedRegionId' = clicked
            /\ lastOp' = IF Cardinality(Containing(Regions, x, y)) > 1
                          THEN "selectOverlap" ELSE "select"
            /\ UNCHANGED canvasVars
       ELSE /\ selectedRegionId' = NoId
            /\ isDrawing' = TRUE
            /\ startPos' = [x |-> x, y |-> y]
            /\ currentRect' = ZeroRect(x, y)
            /\ pointer' = [x |-> x, y |-> y]
            /\ lastOp' = "anchor"
    /\ UNCHANGED <<images, mergedImage, isProcessing, processingStatus, mode,
                   passVars, alerts, edits, passes>>
    /\ UNCHANGED exportVars

HandleMouseDown == \E p \in Points : MouseDownAt(p[1], p[2])

\* handleMouseMove with the pointer at (x, y).
MouseMoveAt(x, y) ==
    /\ EditorScreen
    /\ IF ~isDrawing \/ startPos = NoPos
       THEN UNCHANGED <<currentRect, pointer, lastOp>>
       ELSE /\ currentRect' = PendingRect(startPos, x, y)
            /\ pointer' = [x |-> x, y |-> y]
            /\ lastOp' = "move"
    /\ UNCHANGED <<sessionVars, isDrawing, startPos, passVars,
                   alerts, edits, passes>>
    /\ UNCHANGED exportVars

HandleMouseMove == \E p \in Points : MouseMoveAt(p[1], p[2])

\* Mutant of ClearDrawState: the anchor is left as it was.
ClearDrawStateKeepsAnchor ==
    /\ isDrawing' = FALSE
    /\ currentRect' = NoRect
    /\ UNCHANGED startPos

\* setIsDrawing(false); setStartPos(null); setCurrentRect(null)
ClearDrawState ==
    /\ isDrawing' = FALSE
    /\ startPos' = NoPos
    /\ currentRect' = NoRect

\* handleMouseUp, bound to onMouseUp and to onMouseLeave.
HandleMouseUp ==
    /\ EditorScreen
    /\ IF Commits(isDrawing, currentRect)
       THEN /\ \E id \in IdSpace : addRegion(RegionData(currentRect), id)
            /\ lastOp' = "commit"
       ELSE /\ UNCHANGED <<mergedImage, selectedRegionId>>
            /\ lastOp' = IF isDrawing THEN "discard" ELSE lastOp
    /\ ClearDrawState
    /\ pointer' = NoPos
    /\ UNCHANGED <<images, isProcessing, processingStatus, mode, passVars,
                   alerts, edits, passes>>
    /\ UNCHANGED exportVars

\* The delete button drawn on a region of the canvas.
CanvasRemoveClick ==
    /\ EditorScreen
    /\ \E i \in DOMAIN Regions : removeRegion(Regions[i].id)
    /\ lastOp' = "canvasRemove"
    /\ UNCHANGED <<images, isProcessing, processingStatus, mode, canvasVars,
                   passVars, alerts, edits, passes>>
    /\ UNCHANGED exportVars

\* The SIL button of the side panel, shown for the selected region.
PanelRemoveClick ==
    /\ EditorScreen
    /\ selectedRegionId # NoId
    /\ removeRegion(selectedRegionId)
    /\ lastOp' = "panelRemove"
    /\ UNCHANGED <<images, isProcessing, processingStatus, mode, canvasVars,
                   passVars, alerts, edits, passes>>
    /\ UNCHANGED exportVars

\* A text area of the side panel changes: updateRegion(region.id, {field}).
PanelEditText ==
    /\ EditorScreen
    /\ selectedRegionId # NoId
    /\ edits < MaxEdits
    /\ \E field \in {"originalText", "translatedText"}, text \in EditTexts :
         updateRegion(selectedRegionId, field, text)
    /\ edits' = edits + 1
    /\ lastOp' = "edit"
    /\ UNCHANGED <<images, isProcessing, processingStatus, selectedRegionId,
                   mode, canvasVars, passVars, alerts, passes>>
    /\ UNCHANGED exportVars

\* --------------------------------------------------------------- OCR pass
\* disabled={isProcessing || mergedImage?.regions.length === 0}
OcrDisabled == isProcessing \/ (~mergedImage.null /\ Len(Regions) = 0)
TranslateDisabled == isProcessing \/ (~mergedImage.null /\ Len(Regions) = 0)

\* Mutant of ResetProcessing: the progress text is left as it was.
ResetProcessingKeepsStatus ==
    /\ isProcessing' = FALSE
    /\ UNCHANGED processingStatus

\* The finally block of both passes.
ResetProcessing ==
    /\ isProcessing' = FALSE
    /\ processingStatus' = ""

\* The closure of the pass is dropped; its objects are ordinary ones again.
OcrClosureDropped ==
    /\ ocrPc' = "idle"
    /\ ocrMerged' = NullImage
    /\ updatedRegions' = <<>>
    /\ ocrI' = 0

ReadingStatus(i, n) == "Okunuyor: Kutu " \o ToString(i) \o "/" \o ToString(n)

\* Mutant of SortedByOrder: the comparison is the other way round.
SortedByOrderDescending(rs) == SortRegions(rs, -1)

\* [...mergedImage.regions].sort((a, b) => a.order - b.order)
SortedByOrder(rs) == SortRegions(rs, 1)

\* Mutant of NothingToProcess: only a missing working image counts.
NoWorkingImage == mergedImage.null

\* !mergedImage || mergedImage.regions.length === 0
NothingToProcess == mergedImage.null \/ Len(Regions) = 0

\* runOcrOnSelectedRegions up to await createWorker(...).
runOcrOnSelectedRegions ==
    /\ IF NothingToProcess
       THEN /\ lastOp' = "ocrGuard"
            /\ UNCHANGED <<mergedImage, isProcessing, processingStatus, ocrVars,
                           alerts, passes>>
       ELSE /\ isProcessing' = TRUE
            /\ processingStatus' = "Korece OCR motoru hazirlaniyor..."
            /\ mergedImage' = [mergedImage EXCEPT !.regions = Tagged(@)]
            /\ ocrMerged' = mergedImage'
            /\ ocrPc' = "init"
            /\ alerts' = 0
            /\ passes' = passes + 1
            /\ lastOp' = "ocrStart"
            /\ UNCHANGED <<updatedRegions, ocrI>>
    /\ UNCHANGED <<images, selectedRegionId, mode, canvasVars, mergeVars,
                   transVars, edits>>
    /\ UNCHANGED exportVars

\* The OCR button of the editor.
OcrStart ==
    /\ EditorScreen
    /\ ~OcrDisabled
    /\ passes < MaxPasses
    /\ runOcrOnSelectedRegions

\* runOcrOnSelectedRegions called with no working image or with no region.
OcrOnNothing ==
    /\ mergedImage.null \/ Len(Regions) = 0
    /\ runOcrOnSelectedRegions

\* createWorker resolved: the working copy is sorted, the image load awaited.
OcrWorkerReady ==
    /\ ocrPc = "init"
    /\ updatedRegions' = SortedByOrder(ocrMerged.regions)
    /\ ocrPc' = "load"
    /\ lastOp' = "ocrWorker"
    /\ UNCHANGED <<sessionVars, canvasVars, mergeVars, ocrMerged, ocrI,
                   transVars, alerts, edits, passes>>
    /\ UNCHANGED exportVars

\* The source image (a data URL the compositor made) loaded: the loop is
\* entered and the first crop is sent.
OcrImageLoaded ==
    /\ ocrPc = "load"
    /\ IF Len(updatedRegions) = 0
       THEN /\ ocrPc' = "term"
            /\ UNCHANGED processingStatus
       ELSE /\ ocrPc' = "rec"
            /\ processingStatus' = ReadingStatus(1, Len(updatedRegions))
    /\ ocrI' = 0
    /\ lastOp' = "ocrLoaded"
    /\ UNCHANGED <<images, mergedImage, isProcessing, selectedRegionId, mode,
                   canvasVars, mergeVars, ocrMerged, updatedRegions,
                   transVars, alerts, edits, passes>>
    /\ UNCHANGED exportVars

\* worker.recognize resolved for updatedRegions[i]: its trimmed text is
\* written into the region object; the next crop is sent, or the worker is
\* terminated after the last one.
OcrRecognized ==
    /\ ocrPc = "rec"
    /\ \E raw \in RawTexts :
         LET tag == updatedRegions[ocrI + 1].obj
             text == Trim(raw) IN
         /\ updatedRegions' = WriteOriginalText(updatedRegions, tag, text)
         /\ ocrMerged' =
              [ocrMerged EXCEPT !.regions = WriteOriginalText(@, tag, text)]
         /\ mergedImage' =
              [mergedImage EXCEPT !.regions = WriteOriginalText(@, tag, text)]
    /\ IF ocrI + 1 < Len(updatedRegions)
       THEN /\ ocrI' = ocrI + 1
            /\ processingStatus' = ReadingStatus(ocrI + 2, Len(updatedRegions))
            /\ UNCHANGED ocrPc
       ELSE /\ ocrPc' = "term"
            /\ UNCHANGED <<ocrI, processingStatus>>
    /\ lastOp' = "ocrText"
    /\ UNCHANGED <<images, isProcessing, selectedRegionId, mode, canvasVars,
                   mergeVars, transVars, alerts, edits, passes>>
    /\ UNCHANGED exportVars

\* worker.terminate resolved: setMergedImage({...mergedImage, regions:
\* updatedRegions}) with the captured mergedImage, then the finally block.
OcrTerminated ==
    /\ ocrPc = "term"
    /\ mergedImage' = [ocrMerged EXCEPT !.regions = Untagged(updatedRegions)]
    /\ ResetProcessing
    /\ OcrClosureDropped
    /\ lastOp' = "ocrDone"
    /\ UNCHANGED <<images, selectedRegionId, mode, canvasVars, mergeVars,
                   transVars, alerts, edits, passes>>
    /\ UNCHANGED exportVars

\* The catch block and the finally block.
OcrCaught ==
    /\ alerts' = alerts + 1
    /\ mergedImage' = [mergedImage EXCEPT !.regions = Untagged(@)]
    /\ ResetProcessing
    /\ OcrClosureDropped
    /\ UNCHANGED <<images, selectedRegionId, mode, canvasVars, mergeVars,
                   transVars, edits, passes>>
    /\ UNCHANGED exportVars

\* createWorker rejected.
OcrInitFails ==
    /\ ocrPc = "init"
    /\ OcrCaught
    /\ lastOp' = "ocrInitFail"

\* worker.recognize rejected for updatedRegions[i].
OcrRecognizeFails ==
    /\ ocrPc = "rec"
    /\ OcrCaught
    /\ lastOp' = "ocrTextFail"

\* worker.terminate rejected.
OcrTerminateFails ==
    /\ ocrPc = "term"
    /\ OcrCaught
    /\ lastOp' = "ocrEndFail"

\* ------------------------------------------------------- translation pass
\* What ai.models.generateContent does: it throws, or it answers with no
\* text, with text that is no JSON, with a JSON value that is no array, or
\* with a JSON array of {id, translatedText}.
TransItems == [id : IdSpace, translatedText : TransTexts]
TransArrays == UNION {[1..n -> TransItems] : n \in 0..MaxTrans}
Responses ==
    {[kind |-> k, items |-> <<>>] :
        k \in {"throws", "empty", "malformed", "scalar"}}
    \cup {[kind |-> "array", items |-> a] : a \in TransArrays}

EmptyResult == [isArray |-> TRUE, items |-> <<>>]

\* translateOcrResults(ocrData, ...), given whether an API key is configured
\* and what the service does.
TranslateOcrResults(ocrData, apiKey, response) ==
    IF Len(ocrData) = 0 THEN EmptyResult
    ELSE IF ~apiKey THEN EmptyResult
    ELSE CASE response.kind = "throws" -> EmptyResult
           [] response.kind = "empty" -> EmptyResult
           [] response.kind = "malformed" -> EmptyResult
           [] response.kind = "scalar" -> [isArray |-> FALSE, items |-> <<>>]
           [] OTHER -> [isArray |-> TRUE, items |-> response.items]

\* regions.map(r => { trans = translations.find(t => t.id === r.id); ... })
TranslatedRegions(rs, translations) ==
    [i \in DOMAIN rs |->
        LET k == FirstIndex({n \in DOMAIN translations :
                                 translations[n].id = rs[i].id}) IN
        IF k # 0
        THEN [rs[i] EXCEPT !.translatedText = translations[k].translatedText,
                           !.obj = 0]
        ELSE rs[i]]

OcrData(rs) ==
    [i \in DOMAIN rs |-> [id |-> rs[i].id, originalText |-> rs[i].originalText]]

\* runAiTranslation up to await translateOcrResults(...).
runAiTranslation ==
    /\ IF NothingToProcess
       THEN /\ lastOp' = "translateGuard"
            /\ UNCHANGED <<isProcessing, processingStatus, transVars, alerts,
                           passes>>
       ELSE /\ isProcessing' = TRUE
            /\ processingStatus' = "Gemini API Cevirisi yapiliyor..."
            /\ transMerged' = mergedImage
            /\ transPc' = "call"
            /\ alerts' = 0
            /\ passes' = passes + 1
            /\ lastOp' = "translateStart"
    /\ UNCHANGED <<images, mergedImage, selectedRegionId, mode, canvasVars,
                   mergeVars, ocrVars, edits>>
    /\ UNCHANGED exportVars

\* The translate button of the editor.
TranslateStart ==
    /\ EditorScreen
    /\ ~TranslateDisabled
    /\ passes < MaxPasses
    /\ runAiTranslation

\* runAiTranslation called with no working image or with no region.
TranslateOnNothing ==
    /\ mergedImage.null \/ Len(Regions) = 0
    /\ runAiTranslation

\* translateOcrResults resolved.  The API key is a constant of the service
\* module that only this call reads.  A result that is no array makes
\* translations.find throw, which the catch block reports.
TranslateReturnsWith(apiKey, response) ==
    /\ transPc = "call"
    /\ LET result == TranslateOcrResults(OcrData(transMerged.regions),
                                         apiKey, response) IN
       IF result.isArray
       THEN /\ mergedImage' =
                 [transMerged EXCEPT
                    !.regions = TranslatedRegions(@, result.items)]
            /\ lastOp' = "translateDone"
            /\ UNCHANGED alerts
       ELSE /\ alerts' = alerts + 1
            /\ lastOp' = "translateFail"
            /\ UNCHANGED mergedImage
    /\ ResetProcessing
    /\ transPc' = "idle"
    /\ transMerged' = NullImage
    /\ UNCHANGED <<images, selectedRegionId, mode, canvasVars, mergeVars,
                   ocrVars, edits, passes>>
    /\ UNCHANGED exportVars

TranslateReturns ==
    \E apiKey \in BOOLEAN, response \in Responses :
        TranslateReturnsWith(apiKey, response)

\* -------------------------------------------------------- export renderer
\* Pixel lengths are counted in 1/10000 px, so (p / 100) * size is p * size
\* for a percentage p counted in hundredths of a point.  The divisions below
\* are exact for the sizes used.
Px(percent, size) == percent * size

\* Math.max(12, rh * 0.15)
FontSize(rh) == Max(12 * 10000, (rh * 15) \div 100)

\* ctx.measureText(line).width for the font set from fontSize: every
\* character advances by one em.
MeasureText(line, fontSize) == Len(line) * fontSize

\* r.translatedText || r.originalText
DisplayText(r) ==
    IF r.translatedText # <<>> THEN r.translatedText ELSE r.originalText

\* text.split(' ')
RECURSIVE Split(_)
Split(t) ==
    LET spaces == {i \in DOMAIN t : t[i] = " "}
        i == FirstIndex(spaces) IN
    IF i = 0 THEN <<t>>
    ELSE <<SubSeq(t, 1, i - 1)>> \o Split(SubSeq(t, i + 1, Len(t)))

\* Mutant of WrapLimit: the whole width of the region is used.
WrapLimitFull(rw) == rw * 100

\* rw * 0.85, times 100.
WrapLimit(rw) == rw * 85

\* The word-wrap loop from index n (1-based) on, with the line and the lines
\* built so far; lines.push(line) after the last word.
RECURSIVE WrapFrom(_, _, _, _, _, _)
WrapFrom(words, n, line, lines, fontSize, rw) ==
    IF n > Len(words) THEN Append(lines, line)
    ELSE LET testLine == line \o words[n] \o <<" ">> IN
         IF MeasureText(testLine, fontSize) * 100 > WrapLimit(rw) /\ n > 1
         THEN WrapFrom(words, n + 1, words[n] \o <<" ">>,
                       Append(lines, line), fontSize, rw)
         ELSE WrapFrom(words, n + 1, testLine, lines, fontSize, rw)

WrapLines(text, fontSize, rw) ==
    WrapFrom(Split(text), 1, <<>>, <<>>, fontSize, rw)

\* The body of mergedImage.regions.forEach for the n-th region r: the calls
\* made on the context, in order.
RegionOps(r, n, canvas) ==
    LET rx == Px(r.x, canvas.w)
        ry == Px(r.y, canvas.h)
        rw == Px(r.width, canvas.w)
        rh == Px(r.height, canvas.h)
        fontSize == FontSize(rh)
        text == DisplayText(r)
        lines == WrapLines(text, fontSize, rw)
        lineHeight == (fontSize * 12) \div 10
        startY == ry + (rh \div 2) - (((Len(lines) - 1) * lineHeight) \div 2)
        box == [op |-> "fillRect", n |-> n, x |-> rx, y |-> ry,
                w |-> rw, h |-> rh, text |-> <<>>] IN
    IF text = <<>> THEN <<box>>
    ELSE <<box>> \o
         [i \in 1..Len(lines) |->
            [op |-> "fillText", n |-> n, x |-> rx + (rw \div 2),
             y |-> startY + (i - 1) * lineHeight, w |-> 0, h |-> 0,
             text |-> lines[i]]]

RECURSIVE RegionsOps(_, _, _)
RegionsOps(rs, n, canvas) ==
    IF n > Len(rs) THEN <<>>
    ELSE RegionOps(rs[n], n, canvas) \o RegionsOps(rs, n + 1, canvas)

\* Everything downloadFinal draws once the image has loaded; nothing at all
\* without a context.
ExportOps(image, ctx) ==
    IF ~ctx THEN <<>>
    ELSE <<[op |-> "drawImage", n |-> 0, x |-> 0, y |-> 0,
            w |-> image.url.w, h |-> image.url.h, text |-> <<>>]>>
         \o RegionsOps(image.regions, 1, image.url)

\* disabled={mergedImage?.regions.length === 0 || isProcessing}
ExportDisabled == (~mergedImage.null /\ Len(Regions) = 0) \/ isProcessing

\* downloadFinal up to await new Promise(r => img.onload = r).
DownloadStart ==
    /\ EditorScreen
    /\ ~ExportDisabled
    /\ exportPc = "idle"
    /\ IF mergedImage.null
       THEN UNCHANGED <<exportVars, lastOp>>
       ELSE /\ exportPc' = "load"
            /\ exportMerged' = mergedImage
            /\ exportCtx' \in BOOLEAN
            /\ lastOp' = "exportStart"
            /\ UNCHANGED download
    /\ UNCHANGED <<sessionVars, canvasVars, passVars, alerts, edits, passes>>

\* The image loaded: the canvas is sized and painted and handed to the link.
DownloadLoaded ==
    /\ exportPc = "load"
    /\ download' = [w |-> exportMerged.url.w, h |-> exportMerged.url.h,
                    draws |-> ExportOps(exportMerged, exportCtx)]
    /\ exportPc' = "idle"
    /\ exportMerged' = NullImage
    /\ lastOp' = "download"
    /\ UNCHANGED <<sessionVars, canvasVars, passVars, alerts, edits, passes,
                   exportCtx>>

\* ---------------------------------------------------------- specification
\* The steps an OCR or translation pass takes when an awaited call settles.
PassStep ==
    \/ OcrWorkerReady
    \/ OcrImageLoaded
    \/ OcrRecognized
    \/ OcrTerminated
    \/ OcrInitFails
    \/ OcrRecognizeFails
    \/ OcrTerminateFails
    \/ TranslateReturns

Next ==
    \/ HandleFileUpload
    \/ MoveImage
    \/ RemoveImage
    \/ MergeStart
    \/ MergeDecoded
    \/ ResetToUpload
    \/ HandleMouseDown
    \/ HandleMouseMove
    \/ HandleMouseUp
    \/ CanvasRemoveClick
    \/ PanelRemoveClick
    \/ PanelEditText
    \/ OcrStart
    \/ OcrWorkerReady
    \/ OcrImageLoaded
    \/ OcrRecognized
    \/ OcrTerminated
    \/ OcrInitFails
    \/ OcrRecognizeFails
    \/ OcrTerminateFails
    \/ TranslateStart
    \/ TranslateReturns

Spec == Init /\ [][Next]_vars

\* Every awaited call of a pass settles: it resolves or it rejects.
FairSpec == Spec /\ WF_vars(PassStep)

\* The session with, in addition, the three handlers called when they have
\* nothing to work on; their buttons are not available then.
GuardNext ==
    \/ Next
    \/ MergeOnNothing
    \/ OcrOnNothing
    \/ TranslateOnNothing

GuardSpec == Init /\ [][GuardNext]_vars

\* The compositor on its own: any non-empty ingest list of up to MaxMerge
\* panels has been uploaded, and the merge button is clicked.
MergeInputs ==
    UNION {[1..n -> {[id |-> "p", width |-> z[1], height |-> z[2]] :
                        z \in MergeSizes}] : n \in 1..MaxMerge}

CompInit ==
    /\ images \in MergeInputs
    /\ mergedImage = NullImage
    /\ isProcessing = FALSE
    /\ processingStatus = ""
    /\ selectedRegionId = NoId
    /\ mode = "UPLOAD"
    /\ isDrawing = FALSE
    /\ startPos = NoPos
    /\ currentRect = NoRect
    /\ mergePc = "idle"
    /\ mergeImages = <<>>
    /\ mergeCanvas = NoUrl
    /\ ocrPc = "idle"
    /\ ocrMerged = NullImage
    /\ updatedRegions = <<>>
    /\ ocrI = 0
    /\ transPc = "idle"
    /\ transMerged = NullImage
    /\ alerts = 0
    /\ edits = 0
    /\ passes = 0
    /\ pointer = NoPos
    /\ lastOp = "upload"
    /\ exportPc = "idle"
    /\ exportMerged = NullImage
    /\ exportCtx = FALSE
    /\ download = NoUrl

CompNext ==
    \/ MergeStart
    \/ MergeDecoded

CompSpec == CompInit /\ [][CompNext]_vars

\* Every image of the sequence finishes decoding.
CompFairSpec == CompSpec /\ WF_vars(MergeDecoded)

\* The export renderer on its own: the editor holds a merged image of
\* 100 x 200 px with one region whose texts are drawn from ExportTexts and,
\* before or after it, at most one small region elsewhere.
ExportTexts == UNION {[1..n -> ExportChars] : n \in 0..MaxText}

ExportImage ==
    [w |-> 100, h |-> 200,
     draws |-> <<[x |-> 0, y |-> 0, w |-> 100, h |-> 200]>>]

WrappedRegions ==
    {[id |-> "p", x |-> 1000, y |-> 1000, width |-> wd, height |-> ht,
      originalText |-> o, translatedText |-> t, order |-> 0, obj |-> 0] :
        wd \in {5000, 6000}, ht \in {2000, 5000},
        o \in {<<>>, <<"o">>}, t \in ExportTexts}

SmallRegions ==
    {[id |-> "q", x |-> 8000, y |-> 8000, width |-> 1000, height |-> 1000,
      originalText |-> o, translatedText |-> t, order |-> 0, obj |-> 0] :
        o \in {<<>>, <<"o">>}, t \in {<<>>, <<"t">>}}

ExportInputs ==
    LET Numbered(rs) == [i \in DOMAIN rs |-> [rs[i] EXCEPT !.order = i]] IN
    {Numbered(<<r>>) : r \in WrappedRegions}
    \cup {Numbered(<<r, q>>) : r \in WrappedRegions, q \in SmallRegions}
    \cup {Numbered(<<q, r>>) : r \in WrappedRegions, q \in SmallRegions}

ExportInit ==
    /\ images = <<[id |-> "p", width |-> 100, height |-> 200]>>
    /\ mergedImage \in {[null |-> FALSE, url |-> ExportImage, regions |-> rs] :
                           rs \in ExportInputs}
    /\ isProcessing = FALSE
    /\ processingStatus = ""
    /\ selectedRegionId = NoId
    /\ mode = "MERGED_EDITOR"
    /\ isDrawing = FALSE
    /\ startPos = NoPos
    /\ currentRect = NoRect
    /\ mergePc = "idle"
    /\ mergeImages = <<>>
    /\ mergeCanvas = NoUrl
    /\ ocrPc = "idle"
    /\ ocrMerged = NullImage
    /\ updatedRegions = <<>>
    /\ ocrI = 0
    /\ transPc = "idle"
    /\ transMerged = NullImage
    /\ alerts = 0
    /\ edits = 0
    /\ passes = 0
    /\ pointer = NoPos
    /\ lastOp = "edit"
    /\ exportPc = "idle"
    /\ exportMerged = NullImage
    /\ exportCtx = FALSE
    /\ download = NoUrl

ExportNext ==
    \/ DownloadStart
    \/ DownloadLoaded

ExportSpec == ExportInit /\ [][ExportNext]_vars

\* ------------------------------------------------------------- properties
\* C1: at every reachable state in which a merged canvas with M >= 0 regions
\* exists, the order values of its regions are exactly 1, 2, ..., M, each
\* used once.
C1_OrderDense ==
    ~mergedImage.null =>
        /\ \A i, j \in DOMAIN Regions :
             Regions[i].order = Regions[j].order => i = j
        /\ {Regions[i].order : i \in DOMAIN Regions} = 1..Len(Regions)

\* An OCR pass completed over two regions after a text edit.
C1_Witness ==
    /\ lastOp = "ocrDone"
    /\ Len(Regions) = 2
    /\ edits = 1
    /\ Regions[1].order = 1 /\ Regions[2].order = 2

\* C2: when a delete button removes the one region that carries an id, and
\* that region had order k, the region is gone, every survivor whose order
\* was above k has its order lowered by one, every survivor whose order was
\* below k keeps it, nothing else of a survivor changes, and the survivors
\* stay in the same relative order.
C2_RemoveRenumbers ==
    [][\A id \in IdSpace :
         (/\ CanvasRemoveClick \/ PanelRemoveClick
          /\ removeRegion(id)
          /\ Cardinality({i \in DOMAIN Regions : Regions[i].id = id}) = 1)
         =>
         LET k == CHOOSE i \in DOMAIN Regions : Regions[i].id = id IN
         /\ Len(Regions') = Len(Regions) - 1
         /\ id \notin RegionIds(Regions')
         /\ \A i \in DOMAIN Regions \ {k} :
              LET j == IF i < k THEN i ELSE i - 1 IN
              Untagged(Regions')[j] =
                  [Untagged(Regions)[i] EXCEPT
                     !.order = IF Regions[i].order > Regions[k].order
                               THEN @ - 1 ELSE @]
      ]_vars

\* The region of order 1 was removed from under the region of order 2.
C2_Witness ==
    /\ lastOp = "canvasRemove"
    /\ Len(Regions) = 1
    /\ Regions[1].x = 0 /\ Regions[1].width = 20
    /\ Regions[1].order = 1

\* C3: a committed rectangle adds exactly one region, at the end of the
\* array, with order = (number of regions before) + 1 and with both texts
\* empty; the regions that were there keep their place and all their fields.
C3_AddAppends ==
    [][(HandleMouseUp /\ Commits(isDrawing, currentRect)) =>
         /\ Len(Regions') = Len(Regions) + 1
         /\ SubSeq(Regions', 1, Len(Regions)) = Regions
         /\ Regions'[Len(Regions')].order = Len(Regions) + 1
         /\ Regions'[Len(Regions')].originalText = <<>>
         /\ Regions'[Len(Regions')].translatedText = <<>>
      ]_vars

\* A second region was committed and got order 2.
C3_Witness ==
    /\ lastOp = "commit"
    /\ Len(Regions) = 2
    /\ Regions[2].order = 2
    /\ Regions[2].originalText = <<>> /\ Regions[2].translatedText = <<>>

\* C4: when a draw gesture ends, with the anchor at startPos and the last
\* pointer position at pointer: if the two are at most 0.05 points apart
\* horizontally or at most 0.05 points apart vertically, the region set is
\* unchanged; otherwise exactly one region is added and its rectangle is the
\* bounding box of the anchor and the last pointer position.
C4_DrawnBounds ==
    [][(HandleMouseUp /\ isDrawing) =>
         LET Lo(a, b) == IF a <= b THEN a ELSE b
             Hi(a, b) == IF a <= b THEN b ELSE a
             left == Lo(startPos.x, pointer.x)
             right == Hi(startPos.x, pointer.x)
             top == Lo(startPos.y, pointer.y)
             bottom == Hi(startPos.y, pointer.y) IN
         IF right - left <= Threshold \/ bottom - top <= Threshold
         THEN Regions' = Regions
         ELSE /\ Len(Regions') = Len(Regions) + 1
              /\ SubSeq(Regions', 1, Len(Regions)) = Regions
              /\ LET r == Regions'[Len(Regions')] IN
                 /\ r.x = left /\ r.x + r.width = right
                 /\ r.y = top /\ r.y + r.height = bottom
      ]_vars

\* A rectangle dragged between (5, 0) and (20, 20) was committed.
C4_Witness ==
    /\ lastOp = "commit"
    /\ Len(Regions) >= 1
    /\ LET r == Regions[Len(Regions)] IN
       r.x = 5 /\ r.y = 0 /\ r.width = 15 /\ r.height = 20

\* C5: a pointer-down at a point that lies inside two or more regions
\* selects the one of them with the highest order, whatever the position of
\* the regions in the array.
C5_TopmostSelected ==
    [][\A p \in Points :
         (MouseDownAt(p[1], p[2])
            /\ Cardinality(Containing(Regions, p[1], p[2])) >= 2)
         =>
         \E i \in Containing(Regions, p[1], p[2]) :
            /\ \A j \in Containing(Regions, p[1], p[2]) :
                 Regions[j].order <= Regions[i].order
            /\ selectedRegionId' = Regions[i].id
      ]_vars

\* A pointer-down inside two regions with different ids chose the upper one.
C5_Witness ==
    /\ lastOp = "selectOverlap"
    /\ Len(Regions) = 2
    /\ Regions[1].id # Regions[2].id
    /\ selectedRegionId = Regions[2].id

\* C6: a region that is in the set stays in it over every step, unless the
\* step is the removal of that region's id by a delete button or the
\* completion of a new merge; no completion of an OCR or translation pass
\* takes it out.
C6_RegionStaysUntilRemoved ==
    [][\A i \in DOMAIN Regions :
         \/ Regions[i].id \in RegionIds(Regions')
         \/ (CanvasRemoveClick \/ PanelRemoveClick)
               /\ removeRegion(Regions[i].id)
         \/ MergeDecoded
      ]_vars

\* C7: while a pass is in flight, a step that is not a step of that pass
\* leaves the region set as it is: no region is added, removed or edited.
C7_NoMutationWhileProcessing ==
    [][(/\ isProcessing
        /\ mergePc # "idle" \/ ocrPc # "idle" \/ transPc # "idle"
        /\ ~PassStep
        /\ ~MergeDecoded)
         => Untagged(Regions') = Untagged(Regions)
      ]_vars

C9_ProcessingReset ==
    (ocrPc # "idle" \/ transPc # "idle")
        ~> (ocrPc = "idle" /\ transPc = "idle"
            /\ ~isProcessing /\ processingStatus = "")

\* A pass ended in its catch block with the flag down and the text empty.
C9_Witness ==
    /\ lastOp \in {"ocrTextFail", "translateFail"}
    /\ ocrPc = "idle" /\ transPc = "idle"
    /\ ~isProcessing
    /\ processingStatus = ""
    /\ alerts = 1

\* C10: when recognition rejects at the k-th region of an OCR pass over
\* regions with pairwise different ids, every region the pass processed
\* before it holds its recognised text as originalText and exactly one alert
\* is raised; when the worker cannot be created, no region changes and
\* exactly one alert is raised.
C10_PartialResultsKept ==
    [][/\ (/\ OcrRecognizeFails
           /\ \A i, j \in DOMAIN updatedRegions :
                updatedRegions[i].id = updatedRegions[j].id => i = j) =>
            /\ alerts' = 1
            /\ \A j \in 1..ocrI :
                 \A i \in DOMAIN Regions' :
                    (/\ Regions'[i].id = updatedRegions[j].id
                     /\ Regions'[i].x = updatedRegions[j].x
                     /\ Regions'[i].y = updatedRegions[j].y
                     /\ Regions'[i].width = updatedRegions[j].width
                     /\ Regions'[i].height = updatedRegions[j].height)
                    => Regions'[i].originalText
                          = updatedRegions[j].originalText
       /\ OcrInitFails =>
            /\ alerts' = 1
            /\ Untagged(Regions') = Untagged(Regions)
      ]_vars

\* C11: when a translation pass completes with a result array T that names
\* no id twice, every region whose id is in T has T's text for that id as
\* translatedText, every region whose id is not in T keeps the translatedText
\* it had before, and no region that keeps its position changes its
\* originalText or order; the position of an entry in T plays no part.
C11_TranslationById ==
    [][\A apiKey \in BOOLEAN, response \in Responses :
         LET T == TranslateOcrResults(OcrData(transMerged.regions),
                                      apiKey, response).items IN
         (/\ TranslateReturnsWith(apiKey, response)
          /\ lastOp' = "translateDone"
          /\ \A m, n \in DOMAIN T : T[m].id = T[n].id => m = n)
         =>
         \A i \in DOMAIN Regions \cap DOMAIN Regions' :
            Regions'[i].id = Regions[i].id =>
              /\ Regions'[i].originalText = Regions[i].originalText
              /\ Regions'[i].order = Regions[i].order
              /\ \A n \in DOMAIN T :
                   T[n].id = Regions[i].id
                      => Regions'[i].translatedText = T[n].translatedText
              /\ (\A n \in DOMAIN T : T[n].id # Regions[i].id)
                      => Regions'[i].translatedText = Regions[i].translatedText
      ]_vars

C16_IdsUnique ==
    \A i, j \in DOMAIN Regions : Regions[i].id = Regions[j].id => i = j

\* C17: when a delete button, on the canvas or in the side panel, removes
\* the region that is selected, the selection is empty afterwards.
C17_RemoveClearsSelection ==
    [][(/\ CanvasRemoveClick \/ PanelRemoveClick
        /\ selectedRegionId \in RegionIds(Regions)
        /\ selectedRegionId \notin RegionIds(Regions'))
         => selectedRegionId' = NoId
      ]_vars

\* The side panel's button removed the selected one of two regions.
C17_Witness ==
    /\ lastOp = "panelRemove"
    /\ selectedRegionId = NoId
    /\ Len(Regions) = 1
    /\ passes = 0

\* C18: at every reachable state a selectedRegionId that is not null is the
\* id of a region of the current working image.
C18_SelectionValid ==
    selectedRegionId # NoId => selectedRegionId \in RegionIds(Regions)

\* C20: an id that is not in the region set enters it only when a newly
\* drawn region is committed: no other step, and in particular no completion
\* of an OCR or translation pass, brings back the id of a removed region.
C20_RemovedStaysRemoved ==
    [][(RegionIds(Regions') \ RegionIds(Regions)) # {}
         => HandleMouseUp /\ Commits(isDrawing, currentRect)
      ]_vars

\* C15: when the compositor has finished a non-empty sequence of images,
\* its canvas is as wide as the widest image and as high as all images
\* together, and image k was drawn k-th, at x = 0 and at y = the sum of the
\* heights of the images before it.
C15_CompositorGeometry ==
    lastOp = "mergeDone" =>
        LET canvas == mergedImage.url IN
        /\ \A k \in DOMAIN images : canvas.w >= images[k].width
        /\ \E k \in DOMAIN images : canvas.w = images[k].width
        /\ canvas.h = SeqSum([k \in DOMAIN images |-> images[k].height])
        /\ Len(canvas.draws) = Len(images)
        /\ \A k \in DOMAIN images :
             /\ canvas.draws[k].x = 0
             /\ canvas.draws[k].y =
                   SeqSum([j \in 1..(k - 1) |-> images[j].height])
             /\ canvas.draws[k].w = images[k].width
             /\ canvas.draws[k].h = images[k].height

\* Three images of different sizes were merged.
C15_Witness ==
    /\ lastOp = "mergeDone"
    /\ Len(images) = 3
    /\ images[1].width # images[2].width
    /\ mergedImage.url.draws[3].y = images[1].height + images[2].height

\* C19: every merge started on a non-empty image sequence is followed, when
\* each image decodes, by a state where isProcessing is false, the status is
\* empty, the mode is MERGED_EDITOR and the working image is a new one with
\* no regions.
C19_MergeEnds ==
    (lastOp \in {"mergeStart", "mergeNoContext"})
        ~> (/\ ~isProcessing
            /\ processingStatus = ""
            /\ mode = "MERGED_EDITOR"
            /\ ~mergedImage.null
            /\ Regions = <<>>)

\* C13: in an export that had a drawing context, a white box is painted for
\* a region exactly when its display text (translatedText if non-empty, else
\* originalText) is non-empty, and nothing at all is drawn for a region whose
\* display text is empty.
C13_EmptyTextSkipped ==
    (lastOp = "download" /\ download.draws # <<>>) =>
        \A i \in DOMAIN Regions :
            LET text == IF Regions[i].translatedText # <<>>
                        THEN Regions[i].translatedText
                        ELSE Regions[i].originalText
                ops == download.draws IN
            /\ (\E k \in DOMAIN ops : ops[k].op = "fillRect" /\ ops[k].n = i)
                  <=> text # <<>>
            /\ text = <<>> => \A k \in DOMAIN ops : ops[k].n # i

\* C14: for every exported region with display text, the lines drawn hold
\* the words of the text, each once and in the original order; a word that
\* is not the first of its line was added only because the line with it
\* measured at most 85% of the region's width; the first word of every line
\* but the first did not fit on the line before; and a word that alone
\* measures more than 85% of the width is the only word of its line.
C14_WordWrap ==
    (lastOp = "download" /\ download.draws # <<>>) =>
        \A i \in DOMAIN Regions :
            LET text == DisplayText(Regions[i])
                words == Split(text)
                IsLine(o) == o.op = "fillText" /\ o.n = i
                textOps == SelectSeq(download.draws, IsLine)
                lines == [k \in DOMAIN textOps |-> textOps[k].text]
                rw == Regions[i].width * download.w
                fontSize == FontSize(Regions[i].height * download.h)
                Fits(l) == MeasureText(l, fontSize) * 100 <= rw * 85
                LineWords(l) == Front(Split(l))
                RECURSIVE Flat(_)
                Flat(ls) == IF ls = <<>> THEN <<>>
                            ELSE LineWords(Head(ls)) \o Flat(Tail(ls))
                RECURSIVE Join(_)
                Join(ws) == IF ws = <<>> THEN <<>>
                            ELSE Head(ws) \o <<" ">> \o Join(Tail(ws)) IN
            text # <<>> =>
              /\ \A k \in DOMAIN lines :
                   lines[k] # <<>> /\ Last(lines[k]) = " "
              /\ Flat(lines) = words
              /\ \A k \in DOMAIN lines :
                   \A j \in 2..Len(LineWords(lines[k])) :
                      Fits(Join(SubSeq(LineWords(lines[k]), 1, j)))
              /\ \A k \in 2..Len(lines) :
                   ~Fits(lines[k - 1] \o LineWords(lines[k])[1] \o <<" ">>)
              /\ \A k \in DOMAIN lines :
                   \A j \in DOMAIN LineWords(lines[k]) :
                      MeasureText(LineWords(lines[k])[j], fontSize) * 100
                            > rw * 85
                         => Len(LineWords(lines[k])) = 1

\* A text was wrapped into a line of two words followed by another line of
\* the same region.
C14_Witness ==
    /\ lastOp = "download"
    /\ \E k \in DOMAIN download.draws :
         /\ download.draws[k].op = "fillText"
         /\ download.draws[k].text = <<"a", " ", "b", " ">>
         /\ k + 1 \in DOMAIN download.draws
         /\ download.draws[k + 1].op = "fillText"
         /\ download.draws[k + 1].n = download.draws[k].n

\* C21: a pointer-down at a point inside an existing region selects a region
\* that contains the point and leaves the editor idle, with no anchor and no
\* pending rectangle; and the pointer-up or pointer-leave that follows such a
\* pointer-down adds no region, so that one gesture never both selects a
\* region and draws one.
C21_SelectNeverDraws ==
    [][/\ \A p \in Points :
            (MouseDownAt(p[1], p[2]) /\ Containing(Regions, p[1], p[2]) # {})
            =>
            /\ \E i \in Containing(Regions, p[1], p[2]) :
                 selectedRegionId' = Regions[i].id
            /\ ~isDrawing'
            /\ startPos' = NoPos
            /\ currentRect' = NoRect
       /\ (HandleMouseUp /\ lastOp \in {"select", "selectOverlap"})
            => Regions' = Regions
      ]_vars

\* C22: a pointer-down at a point inside no existing region clears the
\* selection, starts drawing, records the point as the anchor and sets the
\* pending rectangle to the zero-size rectangle at the point; the region set
\* is the same after it.
C22_EmptyDownAnchors ==
    [][\A p \in Points :
         (MouseDownAt(p[1], p[2]) /\ Containing(Regions, p[1], p[2]) = {})
         =>
         /\ selectedRegionId' = NoId
         /\ isDrawing'
         /\ startPos' = [x |-> p[1], y |-> p[2]]
         /\ currentRect' = [x |-> p[1], y |-> p[2], w |-> 0, h |-> 0]
         /\ Regions' = Regions
      ]_vars

\* A pointer-down at (0, 0), outside the one region there is, anchored a
\* rectangle there.
C22_Witness ==
    /\ lastOp = "anchor"
    /\ Len(Regions) = 1
    /\ isDrawing
    /\ selectedRegionId = NoId
    /\ startPos = [x |-> 0, y |-> 0]
    /\ currentRect = [x |-> 0, y |-> 0, w |-> 0, h |-> 0]

\* C23: after every pointer-up or pointer-leave the editor is idle, with no
\* anchor and no pending rectangle, whatever it was before; one received
\* while idle adds no region; and a pointer-move received while idle changes
\* nothing of the session or of the editor.
C23_UpEndsIdle ==
    [][/\ HandleMouseUp =>
            /\ ~isDrawing'
            /\ startPos' = NoPos
            /\ currentRect' = NoRect
            /\ ~isDrawing => Regions' = Regions
       /\ \A p \in Points :
            (MouseMoveAt(p[1], p[2]) /\ ~isDrawing)
            => UNCHANGED <<sessionVars, isDrawing, startPos, currentRect>>
      ]_vars

\* A pointer-up discarded a pending rectangle and left the editor idle.
C23_Witness ==
    /\ lastOp = "discard"
    /\ ~isDrawing
    /\ startPos = NoPos
    /\ currentRect = NoRect

\* C27: when a pointer-up or pointer-leave ends a draw gesture, the selection
\* afterwards is the id of the region it added if it added one, and empty if
\* the rectangle was discarded.
C27_SelectionAfterDraw ==
    [][(HandleMouseUp /\ isDrawing) =>
         IF Len(Regions') = Len(Regions) + 1
         THEN selectedRegionId' = Regions'[Len(Regions')].id
         ELSE selectedRegionId' = NoId
      ]_vars

\* C24: while an OCR pass recognises a region, the regions whose recognition
\* has returned are exactly those of its working copy with a lower order,
\* and no region of a higher order has been sent; after the recognition of
\* one region returns, the next one sent has the next higher order; and
\* after a pass that completed without a failure the region sequence is
\* sorted by ascending order.
C24_OcrAscending ==
    [][/\ ocrPc' = "rec" =>
            \A j \in DOMAIN updatedRegions' :
               (updatedRegions'[j].order < updatedRegions'[ocrI' + 1].order)
                  <=> j <= ocrI'
       /\ (OcrRecognized /\ ocrPc' = "rec") =>
            /\ ocrI' = ocrI + 1
            /\ updatedRegions'[ocrI' + 1].order
                  > updatedRegions[ocrI + 1].order
       /\ OcrTerminated =>
            \A i, j \in DOMAIN Regions' :
               i < j => Regions'[i].order < Regions'[j].order
      ]_vars

\* The pass has the text of the region of order 1 and is recognising the
\* region of order 2.
C24_Witness ==
    /\ ocrPc = "rec"
    /\ ocrI = 1
    /\ Len(updatedRegions) = 2
    /\ updatedRegions[1].order = 1
    /\ updatedRegions[2].order = 2
    /\ lastOp = "ocrText"

\* C25: mergeImagesOnly called with an empty image sequence, and
\* runOcrOnSelectedRegions or runAiTranslation called with no working image
\* or with an empty region set, change nothing: the busy flag, the status,
\* the mode, the images, the working image with its regions and the
\* selection stay as they are, the editor and the export are untouched, no
\* pass is set going and no alert is raised.
C25_GuardsAreNoOps ==
    [][(\/ MergeOnNothing /\ Len(images) = 0
        \/ OcrOnNothing /\ (mergedImage.null \/ Len(Regions) = 0)
        \/ TranslateOnNothing /\ (mergedImage.null \/ Len(Regions) = 0))
         => UNCHANGED <<sessionVars, isDrawing, startPos, currentRect,
                        passVars, alerts, exportVars>>
      ]_vars

\* The OCR handler was called in the editor with a working image that has
\* no region, and no pass is in flight.
C25_Witness ==
    /\ lastOp = "ocrGuard"
    /\ mode = "MERGED_EDITOR"
    /\ ~mergedImage.null
    /\ Len(Regions) = 0
    /\ ~isProcessing
    /\ ocrPc = "idle"
    /\ alerts = 0

\* C26: over every step, a region that is in the set before and after the
\* step, known by its id (the ids of the set being pairwise different before
\* and after), has the same x, y, width and height after the step as
\* before: no text edit, removal of another region, OCR pass or translation
\* pass changes the rectangle of a region.
C26_GeometryFixed ==
    [][LET Unique(rs) == \A i, j \in DOMAIN rs : rs[i].id = rs[j].id => i = j IN
       (Unique(Regions) /\ Unique(Regions')) =>
          \A i \in DOMAIN Regions, j \in DOMAIN Regions' :
             Regions'[j].id = Regions[i].id =>
                /\ Regions'[j].x = Regions[i].x
                /\ Regions'[j].y = Regions[i].y
                /\ Regions'[j].width = Regions[i].width
                /\ Regions'[j].height = Regions[i].height
      ]_vars

=============================================================================
